---- MODULE Spec2Model ----
(***************************************************************************)
(* Kisan Mitra chat front-end: the voice hook (src/src/hooks/use-voice.ts), *)
(* the mic button (src/unnamed/part_002) and the chat page                  *)
(* (src/unnamed/part_001) as one state machine.  Texts are sequences of     *)
(* one-character strings.  Timers are untimed: an armed timer may fire at   *)
(* any later step.                                                          *)
(***************************************************************************)
EXTENDS Naturals, Sequences, FiniteSets

\* ------------------------------------------------------------------ bounds
MaxCaptures == 2
MaxSessions == 2
MaxSpeaks == 2
MaxDeltas == 2

Caps == 1..MaxCaptures
Sessions == 1..MaxSessions
Calls == 1..MaxSpeaks

\* ------------------------------------------------------------------ inputs
\* SpeechRecognitionErrorEvent.error values fed to recognition.onerror
ErrorCodes == {"not-allowed", "no-speech", "network", "audio-capture", "aborted", "bad-grammar"}
\* event.results[0]?.[0]?.transcript || ""
Transcripts == {<< >>, <<"t">>}
\* what the user types into the textarea
Texts == {<<"q">>}
\* deltas handed to onDelta by the stream client
Chunks == {<<"a">>, <<"*">>}
\* replies delivered in one delta: a plain one, and one with markup, a link and a
\* run of newlines
Reply == <<"*", "*", "H", "e", "l", "l", "o", "*", "*", " ", "[", "l", "i", "n", "k", "]",
           "(", "u", "r", "l", ")", "\n", "\n", "W", "o", "r", "l", "d">>
Replies == {<<"a">>, Reply}
\* e.message of a failed streamChat call
Failures == {"Too many requests", ""}
\* WELCOME[language], spoken from the empty conversation
WELCOME == <<"*", "w">>

\* ------------------------------------------------------------------ languages and voices
Languages == {"en", "hi", "te"}

\* language tags, as sequences of characters
enIN == <<"e", "n", "-", "I", "N">>
hiIN == <<"h", "i", "-", "I", "N">>
teIN == <<"t", "e", "-", "I", "N">>
enUS == <<"e", "n", "-", "U", "S">>
frFR == <<"f", "r", "-", "F", "R">>
hilPH == <<"h", "i", "l", "-", "P", "H">>
hi == <<"h", "i">>

LANG_MAP(l) == CASE l = "en" -> enIN [] l = "hi" -> hiIN [] l = "te" -> teIN

\* what speechSynthesis.getVoices() may hold once it is loaded: the lang of each
\* voice, in the engine's order
Catalogs ==
    {<<enUS>>, <<frFR>>, <<enUS, hiIN, enIN>>, <<hilPH, enUS>>, <<frFR, hi, teIN>>}

\* ------------------------------------------------------------------ messages of use-voice.ts
MsgUnsupported ==
    "Speech recognition is not supported in this browser. Please use Chrome, Edge, or Safari."
MsgTimeout == "No speech detected. Please try again."
MsgStart == "Could not start microphone"
MsgCancelled == "Cancelled"

VARIABLES
    \* environment
    supported,        \* getSpeechRecognitionCtor() # null
    synthAvailable,   \* isSpeechSynthesisAvailable(), and synthRef.current # null
    catalog,          \* the voices of the engine, by language tag, once they are loaded
    language,         \* the page's language, handed to useVoice
    \* useVoice: capture
    voiceState, errorMessage,
    nCaptures,        \* startListening invocations made so far
    capture,          \* per invocation: the closure of its Promise executor
    \* useVoice: playback
    isMuted, isSpeaking,
    cutByMute,        \* toggleMute has cancelled an utterance that was playing (history)
    cutByStop,        \* stopSpeaking has cancelled an utterance that was playing (history)
    voicesLoaded,     \* speechSynthesis.getVoices().length > 0
    onvoiceschanged,  \* speak call whose handler is installed, 0 for null
    speakTimer,       \* speak calls whose 500 ms timer is armed
    nSpeaks,          \* speak calls that got past the early returns
    utterText,        \* per speak call: the sanitized text
    utterLang,        \* per speak call: LANG_MAP[language] of the render that made it
    emptyAtCall,      \* per speak call: the catalog was empty at the call
    spoken,           \* per speak call: engine speak() calls made for it (history)
    synthQueue,       \* speechSynthesis: utterances speaking or queued
    \* page
    messages, isLoading,
    appendedBy,       \* per message: the session whose send appended it (history)
    nSessions,        \* send invocations that got past the guard
    status,           \* per session: position of the awaited streamChat call
    assistantSoFar,   \* per session: the local accumulator of send
    signalAborted,    \* per session: its AbortController has fired
    abortRef,         \* session whose controller abortRef.current holds, 0 for null
    sent,             \* per session: the messages argument of streamChat
    sendClosure,      \* per session: what send's render captured
    toasts            \* per session: toast.error shown by send's catch

captureVars == <<voiceState, errorMessage, nCaptures, capture>>
playbackVars == <<isMuted, cutByMute, cutByStop, isSpeaking, voicesLoaded, onvoiceschanged, speakTimer,
                  nSpeaks, utterText, utterLang, emptyAtCall, spoken, synthQueue>>
chatVars == <<messages, appendedBy, isLoading, nSessions, status, assistantSoFar, signalAborted,
              abortRef, sent, sendClosure, toasts>>
vars == <<supported, synthAvailable, catalog, language, captureVars, playbackVars, chatVars>>

\* ------------------------------------------------------------------ sanitizer of speak
\* the character class of the first replace; the grave accent cannot be written
\* in a TLA+ string and is spelled "grave"
MarkupChars == {"#", "*", "_", "~", "grave", ">"}
Whitespace == {" ", "\n", "\t"}

\* .replace(/[#*_~grave>]/g, "")
StripMarkup(s) == SelectSeq(s, LAMBDA ch : ch \notin MarkupChars)

\* least j >= i with s[j] = ch, or 0
IndexFrom(s, i, ch) ==
    LET hits == {j \in i..Len(s) : s[j] = ch}
    IN IF hits = {} THEN 0 ELSE CHOOSE j \in hits : \A k \in hits : j <= k

RECURSIVE CollapseLinksFrom(_, _)
\* .replace(/\[([^\]]+)\]\([^)]+\)/g, "$1"), scanning from position i
CollapseLinksFrom(s, i) ==
    IF i > Len(s) THEN << >>
    ELSE LET j == IF s[i] = "[" THEN IndexFrom(s, i + 1, "]") ELSE 0
             k == IF j >= i + 2 /\ j + 1 <= Len(s) /\ s[j + 1] = "("
                  THEN IndexFrom(s, j + 2, ")") ELSE 0
         IN IF k >= j + 3 /\ j > 0
            THEN SubSeq(s, i + 1, j - 1) \o CollapseLinksFrom(s, k + 1)
            ELSE <<s[i]>> \o CollapseLinksFrom(s, i + 1)

CollapseLinks(s) == CollapseLinksFrom(s, 1)

RECURSIVE CollapseRuns(_, _, _, _)
\* replace every maximal run of characters of class cls by rep, from position i
CollapseRuns(s, i, cls, rep) ==
    IF i > Len(s) THEN << >>
    ELSE IF s[i] \in cls
         THEN (IF i > 1 /\ s[i - 1] \in cls THEN << >> ELSE rep)
              \o CollapseRuns(s, i + 1, cls, rep)
         ELSE <<s[i]>> \o CollapseRuns(s, i + 1, cls, rep)

\* .replace(/\n+/g, ". ")
CollapseNewlines(s) == CollapseRuns(s, 1, {"\n"}, <<".", " ">>)
\* .replace(/\s+/g, " ")
CollapseSpace(s) == CollapseRuns(s, 1, Whitespace, <<" ">>)

RECURSIVE Trim(_)
\* String.prototype.trim
Trim(s) ==
    IF s = << >> THEN s
    ELSE IF Head(s) \in Whitespace THEN Trim(Tail(s))
    ELSE IF s[Len(s)] \in Whitespace THEN Trim(SubSeq(s, 1, Len(s) - 1))
    ELSE s

\* Clean without the replace that collapses links
CleanKeepsLinks(text) == Trim(CollapseSpace(CollapseNewlines(StripMarkup(text))))

\* the chain of replaces that builds the constant clean in speak
Clean(text) == Trim(CollapseSpace(CollapseNewlines(CollapseLinks(StripMarkup(text)))))

\* ------------------------------------------------------------------ findVoice
\* String.prototype.startsWith
StartsWith(tag, prefix) ==
    Len(prefix) <= Len(tag) /\ SubSeq(tag, 1, Len(prefix)) = prefix

\* lang.split("-")[0]
SplitFirst(lang) ==
    LET i == IndexFrom(lang, 1, "-")
    IN IF i = 0 THEN lang ELSE SubSeq(lang, 1, i - 1)

\* Array.prototype.find over the catalog, given the positions hits of the voices
\* that satisfy the test: the first of them, 0 for undefined
Find(hits) ==
    IF hits = {} THEN 0 ELSE CHOOSE i \in hits : \A j \in hits : i <= j

\* findVoice(lang) over the catalog voices: position of the voice, 0 for null
FindVoice(voices, lang) ==
    LET exact == Find({i \in 1..Len(voices) : voices[i] = lang})
        partial == Find({i \in 1..Len(voices) : StartsWith(voices[i], SplitFirst(lang))})
        en == Find({i \in 1..Len(voices) : StartsWith(voices[i], <<"e", "n">>)})
    IN IF exact # 0 THEN exact
       ELSE IF partial # 0 THEN partial
       ELSE en

\* ------------------------------------------------------------------ initial state
NoClosure == [isLoading |-> FALSE, messages |-> << >>, isMuted |-> FALSE, language |-> "en"]

\* an invocation of startListening that has not been made:
\*   promise      none | pending | resolved | rejected, with its value
\*   timeout      the 10 s timer is armed
\*   idleTimer    the 300 ms processing->idle timer is armed
\*   recognition  new | started | delivered | ended: phase of its engine session
\*   event        the first thing its engine signalled: result, end or an error code
\*   result       the transcript its engine delivered
\*   closure      what the render of its handleVoice captured
\*   toast        the toast.error of handleVoice's catch
\*   trace        history: the voiceState values observed since the call
NoCapture ==
    [promise |-> "none", value |-> << >>, timeout |-> FALSE, idleTimer |-> FALSE,
     recognition |-> "new", event |-> "none", result |-> << >>, closure |-> NoClosure,
     toast |-> "", trace |-> << >>]

\* the state after the first render, with an engine whose catalog is one of catalogs
InitWith(catalogs) ==
    /\ supported \in BOOLEAN
    /\ catalog \in catalogs
    /\ language = "en"
    /\ voiceState = "idle"
    /\ errorMessage = ""
    /\ nCaptures = 0
    /\ capture = [c \in Caps |-> NoCapture]
    /\ isMuted = FALSE
    /\ isSpeaking = FALSE
    /\ cutByMute = FALSE
    /\ cutByStop = FALSE
    /\ synthAvailable \in BOOLEAN
    /\ voicesLoaded \in (IF synthAvailable THEN BOOLEAN ELSE {FALSE})
    /\ onvoiceschanged = 0
    /\ speakTimer = {}
    /\ nSpeaks = 0
    /\ utterText = [k \in Calls |-> << >>]
    /\ utterLang = [k \in Calls |-> << >>]
    /\ emptyAtCall = [k \in Calls |-> FALSE]
    /\ spoken = [k \in Calls |-> 0]
    /\ synthQueue = << >>
    /\ messages = << >>
    /\ appendedBy = << >>
    /\ isLoading = FALSE
    /\ nSessions = 0
    /\ status = [s \in Sessions |-> "none"]
    /\ assistantSoFar = [s \in Sessions |-> << >>]
    /\ signalAborted = [s \in Sessions |-> FALSE]
    /\ abortRef = 0
    /\ sent = [s \in Sessions |-> << >>]
    /\ sendClosure = [s \in Sessions |-> NoClosure]
    /\ toasts = [s \in Sessions |-> << >>]

Init == InitWith({<<enUS>>})

\* ------------------------------------------------------------------ playback
\* what the current render's closures hold
Render ==
    [isLoading |-> isLoading, messages |-> messages, isMuted |-> isMuted,
     language |-> language]

\* speechSynthesis.getVoices()
GetVoices == IF voicesLoaded THEN catalog ELSE << >>

\* trySpeak of speak call k, made for the tag lang while getVoices() returns
\* voices: one utterance handed to the engine, which queues it
TrySpeak(k, queue, voices, lang) ==
    /\ synthQueue' = Append(queue, [call |-> k, started |-> FALSE,
                                    voice |-> FindVoice(voices, lang)])
    /\ spoken' = [spoken EXCEPT ![k] = @ + 1]

\* speak(text) of a render whose isMuted is muted and whose language is lang
Speak(text, muted, lang) ==
    IF muted \/ ~synthAvailable
    THEN UNCHANGED playbackVars
    ELSE IF Clean(text) = << >>
    THEN /\ synthQueue' = << >>
         /\ isSpeaking' = FALSE
         /\ UNCHANGED <<isMuted, cutByMute, cutByStop, voicesLoaded, onvoiceschanged, speakTimer, nSpeaks,
                        utterText, utterLang, emptyAtCall, spoken>>
    ELSE /\ nSpeaks < MaxSpeaks
         /\ LET k == nSpeaks + 1 IN
            /\ nSpeaks' = k
            /\ utterText' = [utterText EXCEPT ![k] = Clean(text)]
            /\ utterLang' = [utterLang EXCEPT ![k] = LANG_MAP(lang)]
            /\ emptyAtCall' = [emptyAtCall EXCEPT ![k] = ~voicesLoaded]
            /\ IF voicesLoaded
               THEN /\ TrySpeak(k, << >>, GetVoices, LANG_MAP(lang))
                    /\ UNCHANGED <<onvoiceschanged, speakTimer>>
               ELSE /\ synthQueue' = << >>
                    /\ onvoiceschanged' = k
                    /\ speakTimer' = speakTimer \cup {k}
                    /\ UNCHANGED spoken
         /\ isSpeaking' = FALSE
         /\ UNCHANGED <<isMuted, cutByMute, cutByStop, voicesLoaded>>

\* the user presses the speaker of message i, or of the welcome card (i = 0)
SpeakMessage(i) ==
    /\ IF i = 0 THEN messages = << >>
       ELSE i \in 1..Len(messages) /\ messages[i].role = "assistant"
    /\ Speak(IF i = 0 THEN WELCOME ELSE messages[i].content, isMuted, language)
    /\ UNCHANGED <<supported, synthAvailable, catalog, language, captureVars, chatVars>>

\* the engine loads its catalog and fires voiceschanged
VoicesChanged ==
    /\ synthAvailable
    /\ ~voicesLoaded
    /\ voicesLoaded' = TRUE
    /\ IF onvoiceschanged # 0
       THEN TrySpeak(onvoiceschanged, synthQueue, catalog, utterLang[onvoiceschanged])
       ELSE UNCHANGED <<synthQueue, spoken>>
    /\ onvoiceschanged' = 0
    /\ UNCHANGED <<isMuted, cutByMute, cutByStop, isSpeaking, speakTimer, nSpeaks, utterText, utterLang, emptyAtCall>>
    /\ UNCHANGED <<supported, synthAvailable, catalog, language, captureVars, chatVars>>

\* the 500 ms timer of speak call k fires
SpeakTimeout(k) ==
    /\ k \in speakTimer
    /\ speakTimer' = speakTimer \ {k}
    /\ TrySpeak(k, synthQueue, GetVoices, utterLang[k])
    /\ UNCHANGED <<isMuted, cutByMute, cutByStop, isSpeaking, voicesLoaded, onvoiceschanged, nSpeaks,
                   utterText, utterLang, emptyAtCall>>
    /\ UNCHANGED <<supported, synthAvailable, catalog, language, captureVars, chatVars>>

\* the engine starts the utterance at the head of its queue: utterance.onstart
UtteranceStart ==
    /\ synthQueue # << >>
    /\ ~synthQueue[1].started
    /\ synthQueue' = [synthQueue EXCEPT ![1].started = TRUE]
    /\ isSpeaking' = TRUE
    /\ UNCHANGED <<isMuted, cutByMute, cutByStop, voicesLoaded, onvoiceschanged, speakTimer, nSpeaks,
                   utterText, utterLang, emptyAtCall, spoken>>
    /\ UNCHANGED <<supported, synthAvailable, catalog, language, captureVars, chatVars>>

\* the utterance at the head finishes or fails: utterance.onend, utterance.onerror
UtteranceEnd ==
    /\ synthQueue # << >>
    /\ synthQueue[1].started
    /\ synthQueue' = Tail(synthQueue)
    /\ isSpeaking' = FALSE
    /\ UNCHANGED <<isMuted, cutByMute, cutByStop, voicesLoaded, onvoiceschanged, speakTimer, nSpeaks,
                   utterText, utterLang, emptyAtCall, spoken>>
    /\ UNCHANGED <<supported, synthAvailable, catalog, language, captureVars, chatVars>>

\* StopSpeaking without the call of cancel: only the flag is cleared
StopSpeakingFlagOnly ==
    /\ isSpeaking' = FALSE
    /\ UNCHANGED <<isMuted, cutByMute, cutByStop, synthQueue, voicesLoaded, onvoiceschanged,
                   speakTimer, nSpeaks, utterText, utterLang, emptyAtCall, spoken>>

\* stopSpeaking, as called by send and clearChat
StopSpeaking ==
    /\ synthQueue' = << >>
    /\ isSpeaking' = FALSE
    /\ cutByStop' = (cutByStop \/ (synthQueue # << >> /\ synthQueue[1].started))
    /\ UNCHANGED <<isMuted, cutByMute, voicesLoaded, onvoiceschanged, speakTimer, nSpeaks,
                   utterText, utterLang, emptyAtCall, spoken>>

\* ToggleMute with the branch for muting left out: the flag flips and the engine
\* goes on speaking
ToggleMuteFlagOnly ==
    /\ isMuted' = ~isMuted
    /\ UNCHANGED <<cutByMute, cutByStop, synthQueue, isSpeaking>>
    /\ UNCHANGED <<voicesLoaded, onvoiceschanged, speakTimer, nSpeaks, utterText, utterLang,
                   emptyAtCall, spoken>>
    /\ UNCHANGED <<supported, synthAvailable, catalog, language, captureVars, chatVars>>

ToggleMute ==
    /\ isMuted' = ~isMuted
    /\ cutByMute' = (cutByMute \/ (~isMuted /\ synthQueue # << >> /\ synthQueue[1].started))
    /\ IF ~isMuted
       THEN synthQueue' = << >> /\ isSpeaking' = FALSE
       ELSE UNCHANGED <<synthQueue, isSpeaking>>
    /\ UNCHANGED <<cutByStop, voicesLoaded, onvoiceschanged, speakTimer, nSpeaks, utterText, utterLang,
                   emptyAtCall, spoken>>
    /\ UNCHANGED <<supported, synthAvailable, catalog, language, captureVars, chatVars>>

\* ------------------------------------------------------------------ page: send and the stream
\* send(text) of a render cl, past its guard
SendBody(text, cl) ==
    LET s == nSessions + 1
        userMsg == [role |-> "user", content |-> Trim(text)]
    IN /\ nSessions < MaxSessions
       /\ messages' = Append(messages, userMsg)
       /\ appendedBy' = Append(appendedBy, s)
       /\ isLoading' = TRUE
       /\ StopSpeaking
       /\ nSessions' = s
       /\ status' = [status EXCEPT ![s] = "streaming"]
       /\ assistantSoFar' = [assistantSoFar EXCEPT ![s] = << >>]
       /\ abortRef' = s
       /\ sent' = [sent EXCEPT ![s] = Append(cl.messages, userMsg)]
       /\ sendClosure' = [sendClosure EXCEPT ![s] = cl]
       /\ UNCHANGED <<signalAborted, toasts>>

\* send(text) of a render cl
Send(text, cl) ==
    IF Trim(text) = << >> \/ cl.isLoading
    THEN UNCHANGED <<playbackVars, chatVars>>
    ELSE SendBody(text, cl)

\* the user submits the textarea
SendTyped(text) ==
    /\ Send(text, Render)
    /\ UNCHANGED <<supported, synthAvailable, catalog, language, captureVars>>

\* UpsertAssistant with an updater that appends a message for every delta
UpsertAssistantAppends(s, chunk) ==
    LET soFar == assistantSoFar[s] \o chunk
    IN /\ assistantSoFar' = [assistantSoFar EXCEPT ![s] = soFar]
       /\ messages' = Append(messages, [role |-> "assistant", content |-> soFar])
       /\ appendedBy' = Append(appendedBy, s)

\* upsertAssistant(chunk) of session s
UpsertAssistant(s, chunk) ==
    LET soFar == assistantSoFar[s] \o chunk
        n == Len(messages)
    IN /\ assistantSoFar' = [assistantSoFar EXCEPT ![s] = soFar]
       /\ messages' = IF n > 0 /\ messages[n].role = "assistant"
                      THEN [messages EXCEPT ![n].content = soFar]
                      ELSE Append(messages, [role |-> "assistant", content |-> soFar])
       /\ appendedBy' = IF n > 0 /\ messages[n].role = "assistant"
                        THEN appendedBy ELSE Append(appendedBy, s)

\* send of session s has returned: its locals and its render are gone
Returned(s) ==
    /\ assistantSoFar' = [assistantSoFar EXCEPT ![s] = << >>]
    /\ sent' = [sent EXCEPT ![s] = << >>]
    /\ sendClosure' = [sendClosure EXCEPT ![s] = NoClosure]

\* the stream client of session s still reads the response: it calls onDelta and
\* onDone, or throws an error of its own, only until the signal fires
Delivering(s) == status[s] = "streaming" /\ ~signalAborted[s]

\* streamChat of session s decodes a delta and calls onDelta
StreamDelta(s, chunk) ==
    /\ Delivering(s)
    /\ Len(assistantSoFar[s]) < MaxDeltas
    /\ UpsertAssistant(s, chunk)
    /\ UNCHANGED <<isLoading, nSessions, status, signalAborted, abortRef, sent,
                   sendClosure, toasts>>
    /\ UNCHANGED <<supported, synthAvailable, catalog, language, captureVars, playbackVars>>

\* streamChat of session s reaches the end of the stream, calls onDone and returns
StreamDone(s) ==
    /\ Delivering(s)
    /\ status' = [status EXCEPT ![s] = "done"]
    /\ isLoading' = FALSE
    /\ IF assistantSoFar[s] # << >>
       THEN Speak(assistantSoFar[s], sendClosure[s].isMuted, sendClosure[s].language)
       ELSE UNCHANGED playbackVars
    /\ Returned(s)
    /\ UNCHANGED <<messages, appendedBy, nSessions, signalAborted, abortRef, toasts>>
    /\ UNCHANGED <<supported, synthAvailable, catalog, language, captureVars>>

\* StreamFail with a catch that drops the assistant message left open
StreamFailDiscards(s, msg) ==
    /\ Delivering(s)
    /\ status' = [status EXCEPT ![s] = "failed"]
    /\ toasts' = [toasts EXCEPT ![s] = Append(@, IF msg # "" THEN msg
                                                  ELSE "Failed to get response")]
    /\ isLoading' = FALSE
    /\ LET n == Len(messages)
           open == n > 0 /\ messages[n].role = "assistant"
       IN /\ messages' = IF open THEN SubSeq(messages, 1, n - 1) ELSE messages
          /\ appendedBy' = IF open THEN SubSeq(appendedBy, 1, n - 1) ELSE appendedBy
    /\ Returned(s)
    /\ UNCHANGED <<nSessions, signalAborted, abortRef>>
    /\ UNCHANGED <<supported, synthAvailable, catalog, language, captureVars, playbackVars>>

\* streamChat of session s throws an error that is not an AbortError
StreamFail(s, msg) ==
    /\ Delivering(s)
    /\ status' = [status EXCEPT ![s] = "failed"]
    /\ toasts' = [toasts EXCEPT ![s] = Append(@, IF msg # "" THEN msg
                                                  ELSE "Failed to get response")]
    /\ isLoading' = FALSE
    /\ Returned(s)
    /\ UNCHANGED <<messages, appendedBy, nSessions, signalAborted, abortRef>>
    /\ UNCHANGED <<supported, synthAvailable, catalog, language, captureVars, playbackVars>>

\* StreamAbort with a catch that does not test the name of the error
StreamAbortToasts(s) ==
    /\ status[s] = "streaming"
    /\ signalAborted[s]
    /\ status' = [status EXCEPT ![s] = "aborted"]
    /\ toasts' = [toasts EXCEPT ![s] = Append(@, "Failed to get response")]
    /\ isLoading' = FALSE
    /\ Returned(s)
    /\ UNCHANGED <<messages, appendedBy, nSessions, signalAborted, abortRef>>
    /\ UNCHANGED <<supported, synthAvailable, catalog, language, captureVars, playbackVars>>

\* StreamAbort with a stream client that still calls onDone when its signal fires
StreamAbortCompletes(s) ==
    /\ status[s] = "streaming"
    /\ signalAborted[s]
    /\ status' = [status EXCEPT ![s] = "done"]
    /\ isLoading' = FALSE
    /\ IF assistantSoFar[s] # << >>
       THEN Speak(assistantSoFar[s], sendClosure[s].isMuted, sendClosure[s].language)
       ELSE UNCHANGED playbackVars
    /\ Returned(s)
    /\ UNCHANGED <<messages, appendedBy, nSessions, signalAborted, abortRef, toasts>>
    /\ UNCHANGED <<supported, synthAvailable, catalog, language, captureVars>>

\* streamChat of session s throws the AbortError of its fired signal
StreamAbort(s) ==
    /\ status[s] = "streaming"
    /\ signalAborted[s]
    /\ status' = [status EXCEPT ![s] = "aborted"]
    /\ isLoading' = FALSE
    /\ Returned(s)
    /\ UNCHANGED <<messages, appendedBy, nSessions, signalAborted, abortRef, toasts>>
    /\ UNCHANGED <<supported, synthAvailable, catalog, language, captureVars, playbackVars>>

ClearChat ==
    /\ messages' = << >>
    /\ appendedBy' = << >>
    /\ StopSpeaking
    /\ signalAborted' = IF abortRef # 0
                        THEN [signalAborted EXCEPT ![abortRef] = TRUE]
                        ELSE signalAborted
    /\ UNCHANGED <<isLoading, nSessions, status, assistantSoFar, abortRef, sent,
                   sendClosure, toasts>>
    /\ UNCHANGED <<supported, synthAvailable, catalog, language, captureVars>>

\* ------------------------------------------------------------------ capture
\* the message recognition.onerror builds for an error code
Classify(code) ==
    CASE code = "not-allowed" -> "Microphone access denied"
      [] code = "no-speech" -> "No speech detected. Please speak clearly and try again."
      [] code = "network" -> "Network error during speech recognition"
      [] code = "audio-capture" -> "No microphone found"
      [] OTHER -> "Voice error: " \o code

\* new Error(msg), the reason a call is rejected with
Err(msg) == <<msg>>

\* resolve (st = resolved) or reject (st = rejected) of invocation r with val, and
\* the catch of handleVoice: only the first call settles the promise
Settle(r, st, val) ==
    IF r.promise = "pending"
    THEN [r EXCEPT !.promise = st,
                   !.value = IF st = "rejected" THEN Err(val) ELSE val,
                   !.toast = IF st = "rejected" /\ val # MsgCancelled THEN val ELSE @]
    ELSE r

\* invocation r is still being observed: its call or one of its timers is open
Watching(r) ==
    r.promise # "none" /\ (r.promise = "pending" \/ r.timeout \/ r.idleTimer)

\* nothing of invocation r can run any more
Finished(r) ==
    /\ r.promise \in {"resolved", "rejected"}
    /\ ~r.timeout /\ ~r.idleTimer
    /\ r.recognition \in {"new", "ended"}

\* the two runs of one invocation that the history tells apart
SuccessfulRun == <<"idle", "listening", "processing", "idle">>
FailedRun == <<"idle", "listening", "error">>

IsPrefix(t, run) == Len(t) <= Len(run) /\ SubSeq(run, 1, Len(t)) = t

\* history: the voiceState values observed for one invocation, kept as long as
\* they follow one of the two runs and replaced by <<"other">> once they do not
Seen(t) ==
    IF IsPrefix(t, SuccessfulRun) \/ IsPrefix(t, FailedRun) THEN t ELSE <<"other">>

\* the first values of the history of an invocation: voiceState at the call and
\* after it
FirstSeen ==
    Seen(IF voiceState' # voiceState THEN <<voiceState, voiceState'>> ELSE <<voiceState>>)

\* history: a change of voiceState is appended to an observed invocation; of a
\* finished invocation only the way its promise settled is kept
Note(r, watched) ==
    LET seen == IF watched /\ voiceState' # voiceState
                THEN [r EXCEPT !.trace = Seen(Append(@, voiceState'))] ELSE r
    IN IF Finished(seen)
       THEN [NoCapture EXCEPT !.promise = seen.promise]
       ELSE seen

\* invocation c becomes new, the others stay
Step(c, new) ==
    capture' = [d \in Caps |-> IF d = c THEN Note(new, Watching(capture[c]))
                               ELSE Note(capture[d], Watching(capture[d]))]

\* the mic button of VoiceMicButton calls onPress
MicPress ==
    supported /\ ~isLoading /\ voiceState \notin {"processing", "error"}

\* handleVoice calls startListening; throws: recognition.start() throws
StartListening(throws) ==
    /\ MicPress
    /\ nCaptures < MaxCaptures
    /\ nCaptures' = nCaptures + 1
    /\ voiceState' = IF throws THEN "error" ELSE "listening"
    /\ errorMessage' = IF throws THEN MsgStart ELSE ""
    /\ LET r == [NoCapture EXCEPT !.closure = Render, !.promise = "pending",
                                  !.trace = FirstSeen]
       IN Step(nCaptures + 1,
               IF throws
               THEN Settle(r, "rejected", MsgStart)
               ELSE [r EXCEPT !.timeout = TRUE, !.recognition = "started"])
    /\ UNCHANGED <<supported, synthAvailable, catalog, language, playbackVars, chatVars>>

\* StartUnsupported with the constructor test left out: the call goes on to
\* listening and arms its timer
StartUnsupportedListens ==
    /\ ~supported
    /\ ~isLoading
    /\ nCaptures < MaxCaptures
    /\ nCaptures' = nCaptures + 1
    /\ voiceState' = "listening"
    /\ errorMessage' = ""
    /\ Step(nCaptures + 1,
            [NoCapture EXCEPT !.trace = FirstSeen, !.promise = "pending",
                              !.timeout = TRUE])
    /\ UNCHANGED <<supported, synthAvailable, catalog, language, playbackVars, chatVars>>

\* startListening without a recognition constructor (the mic button of Index.tsx
\* is enabled there, and its handleVoice prefixes the toast)
StartUnsupported ==
    /\ ~supported
    /\ ~isLoading
    /\ nCaptures < MaxCaptures
    /\ nCaptures' = nCaptures + 1
    /\ voiceState' = "error"
    /\ errorMessage' = MsgUnsupported
    /\ Step(nCaptures + 1,
            [NoCapture EXCEPT !.trace = FirstSeen, !.promise = "rejected",
                              !.value = Err(MsgUnsupported),
                              !.toast = "Voice input failed: " \o MsgUnsupported])
    /\ UNCHANGED <<supported, synthAvailable, catalog, language, playbackVars, chatVars>>

\* Timeout with a handler that only stops the engine and leaves the state to onend
TimeoutStopsOnly(c) ==
    /\ capture[c].timeout
    /\ voiceState' = voiceState
    /\ Step(c, [capture[c] EXCEPT !.timeout = FALSE])
    /\ UNCHANGED <<errorMessage, nCaptures>>
    /\ UNCHANGED <<supported, synthAvailable, catalog, language, playbackVars, chatVars>>

\* the 10 s timer of invocation c fires
Timeout(c) ==
    /\ capture[c].timeout
    /\ voiceState' = "idle"
    /\ Step(c, Settle([capture[c] EXCEPT !.timeout = FALSE], "rejected", MsgTimeout))
    /\ UNCHANGED <<errorMessage, nCaptures>>
    /\ UNCHANGED <<supported, synthAvailable, catalog, language, playbackVars, chatVars>>

\* OnResult without the setTimeout that takes processing back to idle
OnResultNoIdleTimer(c, t) ==
    /\ capture[c].recognition = "started"
    /\ voiceState' = "processing"
    /\ Step(c, Settle([capture[c] EXCEPT !.recognition = "delivered", !.event = "result",
                                         !.result = t, !.timeout = FALSE],
                      "resolved", t))
    /\ IF capture[c].promise = "pending" /\ t # << >>
       THEN Send(t, capture[c].closure)
       ELSE UNCHANGED <<playbackVars, chatVars>>
    /\ UNCHANGED <<supported, synthAvailable, catalog, language, errorMessage, nCaptures>>

\* recognition.onresult of invocation c with transcript t, then the rest of handleVoice
OnResult(c, t) ==
    /\ capture[c].recognition = "started"
    /\ voiceState' = "processing"
    /\ Step(c, Settle([capture[c] EXCEPT !.recognition = "delivered", !.event = "result",
                                         !.result = t, !.timeout = FALSE,
                                         !.idleTimer = TRUE],
                      "resolved", t))
    /\ IF capture[c].promise = "pending" /\ t # << >>
       THEN Send(t, capture[c].closure)
       ELSE UNCHANGED <<playbackVars, chatVars>>
    /\ UNCHANGED <<supported, synthAvailable, catalog, language, errorMessage, nCaptures>>

\* OnError without the case for aborted: every code takes the default path
OnErrorNoAbortedCase(c, code) ==
    /\ capture[c].recognition = "started"
    /\ voiceState' = "error"
    /\ errorMessage' = Classify(code)
    /\ Step(c, Settle([capture[c] EXCEPT !.recognition = "delivered", !.event = code,
                                         !.timeout = FALSE],
                      "rejected", Classify(code)))
    /\ UNCHANGED nCaptures
    /\ UNCHANGED <<supported, synthAvailable, catalog, language, playbackVars, chatVars>>

\* recognition.onerror of invocation c with event.error = code
OnError(c, code) ==
    /\ capture[c].recognition = "started"
    /\ LET r == [capture[c] EXCEPT !.recognition = "delivered", !.event = code,
                                   !.timeout = FALSE]
       IN IF code = "aborted"
          THEN /\ voiceState' = "idle"
               /\ Step(c, Settle(r, "rejected", MsgCancelled))
               /\ UNCHANGED errorMessage
          ELSE /\ voiceState' = "error"
               /\ errorMessage' = Classify(code)
               /\ Step(c, Settle(r, "rejected", Classify(code)))
    /\ UNCHANGED nCaptures
    /\ UNCHANGED <<supported, synthAvailable, catalog, language, playbackVars, chatVars>>

\* recognition.onend of invocation c
OnEnd(c) ==
    /\ capture[c].recognition \in {"started", "delivered"}
    /\ voiceState' = IF voiceState = "listening" THEN "idle" ELSE voiceState
    /\ Step(c, [capture[c] EXCEPT !.recognition = "ended",
                                  !.event = IF @ = "none" THEN "end" ELSE @])
    /\ UNCHANGED <<errorMessage, nCaptures>>
    /\ UNCHANGED <<supported, synthAvailable, catalog, language, playbackVars, chatVars>>

\* the 300 ms timer armed by onresult of invocation c fires
IdleTimeout(c) ==
    /\ capture[c].idleTimer
    /\ voiceState' = "idle"
    /\ Step(c, [capture[c] EXCEPT !.idleTimer = FALSE])
    /\ UNCHANGED <<errorMessage, nCaptures>>
    /\ UNCHANGED <<supported, synthAvailable, catalog, language, playbackVars, chatVars>>

\* clearError, reached from the mic button in error state and from the banner
ClearError ==
    /\ voiceState = "error"
    /\ voiceState' = "idle"
    /\ errorMessage' = ""
    /\ capture' = [d \in Caps |-> Note(capture[d], Watching(capture[d]))]
    /\ UNCHANGED nCaptures
    /\ UNCHANGED <<supported, synthAvailable, catalog, language, playbackVars, chatVars>>

\* the user picks language l in the selector: setLanguage
SetLanguage(l) ==
    /\ l # language
    /\ language' = l
    /\ UNCHANGED <<supported, synthAvailable, catalog, captureVars, playbackVars, chatVars>>

\* ------------------------------------------------------------------ specifications
CaptureNext ==
    \/ \E throws \in BOOLEAN : StartListening(throws)
    \/ StartUnsupported
    \/ \E c \in Caps : Timeout(c)
    \/ \E c \in Caps, t \in Transcripts : OnResult(c, t)
    \/ \E c \in Caps, code \in ErrorCodes : OnError(c, code)
    \/ \E c \in Caps : OnEnd(c)
    \/ \E c \in Caps : IdleTimeout(c)
    \/ ClearError

StreamNext ==
    \/ \E s \in Sessions, chunk \in Chunks : StreamDelta(s, chunk)
    \/ \E s \in Sessions : StreamDone(s)
    \/ \E s \in Sessions, msg \in Failures : StreamFail(s, msg)
    \/ \E s \in Sessions : StreamAbort(s)

PlaybackNext ==
    \/ \E i \in 0..Len(messages) : SpeakMessage(i)
    \/ VoicesChanged
    \/ \E k \in Calls : SpeakTimeout(k)
    \/ UtteranceStart
    \/ UtteranceEnd
    \/ ToggleMute

\* the voice capture controller, with the streams its transcripts start completing
\* without a delta
SpecCapture ==
    Init /\ [][CaptureNext \/ \E s \in Sessions : StreamDone(s)]_vars

\* the armed timers of the invocations: the 10 s one and the 300 ms one
timers == [c \in Caps |-> <<capture[c].timeout, capture[c].idleTimer>>]

\* SpecCapture with timers that fire: an armed setTimeout runs unless it is
\* cleared (a timer that fires is no longer armed, so each such step changes timers)
SpecCaptureFair ==
    /\ SpecCapture
    /\ \A c \in Caps : WF_timers(Timeout(c)) /\ WF_timers(IdleTimeout(c))

\* the page: typed and spoken submissions and their streams
SpecChat ==
    Init /\ [][\/ \E text \in Texts : SendTyped(text)
               \/ StartListening(FALSE)
               \/ \E c \in Caps, t \in Transcripts : OnResult(c, t)
               \/ \E c \in Caps : IdleTimeout(c)
               \/ StreamNext
               \/ ClearChat]_vars

\* the page with typed submissions only: one send at a time
SpecPage ==
    Init /\ [][\/ \E text \in Texts : SendTyped(text)
               \/ StreamNext
               \/ ClearChat]_vars

\* the page with typed submissions and the playback controller
SpecSpoken ==
    Init /\ [][\/ \E text \in Texts : SendTyped(text)
               \/ \E s \in Sessions, chunk \in Chunks : StreamDelta(s, chunk)
               \/ \E s \in Sessions : StreamDone(s)
               \/ PlaybackNext]_vars

\* replies that arrive in one delta and are spoken, by onDone and by the speaker
\* buttons
SpecSanitize ==
    Init /\ [][\/ \E text \in Texts : SendTyped(text)
               \/ \E s \in Sessions, chunk \in Replies : StreamDelta(s, chunk)
               \/ \E s \in Sessions : StreamDone(s)
               \/ \E i \in 0..Len(messages) : SpeakMessage(i)
               \/ UtteranceStart
               \/ UtteranceEnd]_vars

\* the playback controller over every catalog and language
SpecVoice ==
    InitWith(Catalogs) /\ [][PlaybackNext \/ \E l \in Languages : SetLanguage(l)]_vars

\* the playback controller
SpecPlayback ==
    Init /\ [][PlaybackNext \/ ClearChat]_vars

\* ------------------------------------------------------------------ claims
\* the engine of invocation c signals an error in this step
ErrorSignalled(c) ==
    /\ capture[c].recognition = "started"
    /\ capture'[c].recognition = "delivered"
    /\ capture'[c].event \in ErrorCodes

\* the call of invocation c is rejected with msg in this step, if it was pending
RejectedWith(c, msg) ==
    capture[c].promise = "pending"
    => capture'[c].promise = "rejected" /\ capture'[c].value = Err(msg)

\* C1: a capture whose engine delivered a transcript to its pending call has seen
\* voiceState go idle, listening, processing, idle by the time its 300 ms timer
\* has fired, and its call is resolved with that transcript
C1_SuccessfulRun ==
    \A c \in Caps :
        (capture[c].event = "result" /\ capture[c].promise = "resolved"
         /\ ~capture[c].idleTimer)
        => capture[c].trace = SuccessfulRun /\ capture[c].value = capture[c].result

\* C2: voiceState leaves error only in a step of clearError
C2_ErrorUntilCleared ==
    [][(voiceState = "error" /\ voiceState' # "error") => ClearError]_vars

\* C3 as stated: every error the engine signals while listening, whatever its
\* code, moves voiceState to error and rejects the pending call with its message
C3_AnyFailureToError ==
    [][\A c \in Caps :
          (voiceState = "listening" /\ ErrorSignalled(c))
          => voiceState' = "error" /\ RejectedWith(c, Classify(capture'[c].event))]_vars

\* C3 amended: an error the engine signals while listening moves voiceState to
\* error, sets the message of its code and rejects the call, if pending, with it,
\* unless the code is aborted: then voiceState goes to idle and the call, if
\* pending, is rejected as Cancelled
C3_FailureClassified ==
    [][\A c \in Caps :
          (voiceState = "listening" /\ ErrorSignalled(c))
          => IF capture'[c].event = "aborted"
             THEN voiceState' = "idle" /\ RejectedWith(c, MsgCancelled)
             ELSE /\ voiceState' = "error"
                  /\ errorMessage' = Classify(capture'[c].event)
                  /\ RejectedWith(c, Classify(capture'[c].event))]_vars

\* C3 witness: one capture was rejected as Cancelled on aborted, another with the
\* network message on a network error that left voiceState in error
C3_Witness ==
    \E c, d \in Caps :
        /\ capture[c].event = "aborted"
        /\ capture[c].promise = "rejected" /\ capture[c].value = Err(MsgCancelled)
        /\ capture[d].event = "network"
        /\ capture[d].promise = "rejected" /\ capture[d].value = Err(Classify("network"))
        /\ capture[d].trace = FailedRun
        /\ voiceState = "error"

\* C4: no two invocations of startListening are listening with a pending call at
\* the same time
C4_OneCapture ==
    Cardinality({c \in Caps : capture[c].promise = "pending"
                              /\ capture[c].recognition = "started"}) <= 1

\* session s is in flight: streamChat is awaited and its signal has not fired
InFlight(s) == status[s] = "streaming" /\ ~signalAborted[s]

\* C5: at most one stream session of the conversation is in flight
C5_OneSession ==
    Cardinality({s \in Sessions : InFlight(s)}) <= 1

\* the assistant message session s is streaming into: the last one its send appended
OwnMessage(s) ==
    LET own == {i \in 1..Len(messages) :
                   appendedBy[i] = s /\ messages[i].role = "assistant"}
    IN IF own = {} THEN 0 ELSE CHOOSE i \in own : \A j \in own : j <= i

\* C6: the assistant message a session in flight is streaming into holds exactly
\* the deltas that session has received, in order
C6_OwnDeltas ==
    \A s \in Sessions :
        (InFlight(s) /\ assistantSoFar[s] # << >>)
        => /\ OwnMessage(s) # 0
           /\ messages[OwnMessage(s)].content = assistantSoFar[s]

\* C7: a speak call made with an empty catalog hands at most one utterance to the
\* engine, and exactly one once its 500 ms timer has fired
C7_OneEngineSpeak ==
    \A k \in 1..nSpeaks :
        emptyAtCall[k] => /\ spoken[k] <= 1
                          /\ (k \notin speakTimer => spoken[k] = 1)

\* C8: once speak has been called twice, the engine holds at most one utterance
\* and it is the one of the latest call
C8_LatestUtteranceOnly ==
    nSpeaks >= 2
    => /\ Len(synthQueue) <= 1
       /\ \A i \in 1..Len(synthQueue) : synthQueue[i].call = nSpeaks

\* the 10 s timer of invocation c fires in this step and its engine has not
\* called back
TimedOutSilent(c) ==
    /\ capture[c].timeout /\ ~capture'[c].timeout
    /\ capture[c].recognition = "started" /\ capture'[c].recognition = "started"

\* C9: when the 10 s timer fires for a capture whose engine never called back,
\* voiceState becomes idle and the call is rejected with the no-speech message
C9_TimeoutRejects ==
    [][\A c \in Caps :
          TimedOutSilent(c)
          => /\ voiceState' = "idle"
             /\ capture'[c].promise = "rejected"
             /\ capture'[c].value = Err(MsgTimeout)]_vars

\* C9 witness: a capture was rejected by its timer while its engine is still silent
C9_Witness ==
    \E c \in Caps :
        /\ capture[c].recognition = "started" /\ capture[c].event = "none"
        /\ ~capture[c].timeout
        /\ capture[c].promise = "rejected" /\ capture[c].value = Err(MsgTimeout)
        /\ voiceState = "idle"

\* C10: the call of a capture whose engine ended without a transcript and without
\* an error is never rejected, and voiceState does not become error in a step of
\* that capture
C10_SilentEndNoFailure ==
    [][\A c \in Caps :
          capture[c].event = "end"
          => /\ capture'[c].promise # "rejected"
             /\ (capture'[c] # capture[c] => voiceState' # "error")]_vars

\* the engine of invocation c delivers a transcript in this step
ResultDelivered(c) ==
    /\ capture[c].recognition = "started"
    /\ capture'[c].recognition = "delivered"
    /\ capture'[c].event = "result"

\* C11: an invocation has one outcome: once its call is rejected, no transcript of
\* its engine moves voiceState to processing, and once its call is resolved, no
\* error of its engine moves voiceState to error
C11_SingleOutcome ==
    [][\A c \in Caps :
          /\ (capture[c].promise = "rejected" /\ ResultDelivered(c))
             => voiceState' # "processing"
          /\ (capture[c].promise = "resolved" /\ ErrorSignalled(c))
             => voiceState' # "error"]_vars

\* invocation c of startListening is made in this step
Called(c) == capture[c].promise = "none" /\ capture'[c].promise # "none"

\* C12: without a recognition constructor voiceState is never listening, and a
\* call of startListening moves it to error with the unsupported message, is
\* rejected at once, arms no timer and starts no engine
C12_UnsupportedRejects ==
    [][~supported
       => /\ voiceState' # "listening"
          /\ \A c \in Caps :
                Called(c) => /\ voiceState' = "error"
                             /\ errorMessage' = MsgUnsupported
                             /\ capture'[c].promise = "rejected"
                             /\ ~capture'[c].timeout
                             /\ capture'[c].recognition = "new"]_vars

\* C12 witness: startListening was called without a constructor and left the
\* unsupported error
C12_Witness ==
    /\ ~supported
    /\ nCaptures >= 1
    /\ capture[1].promise = "rejected"
    /\ voiceState = "error"
    /\ errorMessage = MsgUnsupported

\* the outcomes of the awaited streamChat call
Ended == {"done", "failed", "aborted"}

\* C13: once the signal of a session has fired, the session applies no further
\* delta and its onDone never runs (no completion, no auto-speak); the signal
\* stays fired, and a session that has ended stays as it ended whatever is
\* cancelled afterwards
C13_CancelledSilent ==
    [][\A s \in Sessions :
          /\ signalAborted[s]
             => /\ signalAborted'[s]
                /\ Len(assistantSoFar'[s]) <= Len(assistantSoFar[s])
                /\ status'[s] = "done" => status[s] = "done"
                /\ status'[s] # status[s] => nSpeaks' = nSpeaks
          /\ status[s] \in Ended => status'[s] = status[s]]_vars

\* C13 witness: a session was cancelled after one delta, with room for another,
\* and its call has not returned yet
C13_Witness ==
    \E s \in Sessions :
        /\ signalAborted[s]
        /\ status[s] = "streaming"
        /\ Len(assistantSoFar[s]) = 1
        /\ messages = << >>

\* C14: right after clearChat the message list is empty, the engine holds no
\* utterance, isSpeaking is false and the signal of every session that was in
\* flight has fired
C14_ClearCancelsAll ==
    [][ClearChat
       => /\ messages' = << >>
          /\ synthQueue' = << >>
          /\ ~isSpeaking'
          /\ \A s \in Sessions : InFlight(s) => signalAborted'[s]]_vars

\* send of session s gets past its guard in this step
Accepted(s) == status[s] = "none" /\ status'[s] = "streaming"

\* C15: an accepted submission hands the stream client the message list as it
\* stands at the submission followed by the new user message
C15_FullHistorySent ==
    [][\A s \in Sessions :
          Accepted(s)
          => /\ sent'[s] = messages'
             /\ messages' = Append(messages, messages'[Len(messages')])
             /\ messages'[Len(messages')].role = "user"]_vars

\* the stream of session s ends gracefully in this step
Completed(s) == status[s] = "streaming" /\ status'[s] = "done"

\* position in list of the user message the send of session s appended, or 0
UserMessage(s, list, by) ==
    LET own == {i \in 1..Len(list) : by[i] = s /\ list[i].role = "user"}
    IN IF own = {} THEN 0 ELSE CHOOSE i \in own : TRUE

\* C16: when the stream of a session ends gracefully, the user message that
\* started it is directly followed by one assistant message and no second one,
\* whether or not a delta was delivered
C16_OneReply ==
    [][\A s \in Sessions :
          Completed(s)
          => LET i == UserMessage(s, messages', appendedBy')
             IN /\ i # 0
                /\ i + 1 <= Len(messages')
                /\ messages'[i + 1].role = "assistant"
                /\ i + 2 <= Len(messages') => messages'[i + 2].role # "assistant"]_vars

\* C17: a send that ended by cancellation has shown no failure toast, and a send
\* that ended by another error has shown exactly one, with a message
C17_CancelNotReported ==
    \A s \in Sessions :
        /\ status[s] = "aborted" => toasts[s] = << >>
        /\ status[s] = "failed" => Len(toasts[s]) = 1 /\ toasts[s][1] # ""

\* C17 witness: one send ended by cancellation and another by an error without a
\* message
C17_Witness ==
    \E s, t \in Sessions :
        /\ status[s] = "aborted"
        /\ status[t] = "failed" /\ toasts[t] = <<"Failed to get response">>

\* the send of session s fails in this step
Failed(s) == status[s] = "streaming" /\ status'[s] = "failed"

\* C18: the step in which a send fails leaves the message list as it was: no
\* message is added or removed, and the assistant message that held the deltas of
\* the session still holds them
C18_FailureKeepsList ==
    [][\A s \in Sessions :
          Failed(s)
          => /\ messages' = messages
             /\ LET i == OwnMessage(s)
                IN (i # 0 /\ messages[i].content = assistantSoFar[s])
                   => /\ i <= Len(messages')
                      /\ messages'[i] = [role |-> "assistant",
                                          content |-> assistantSoFar[s]]]_vars

\* C18 witness: a send has failed and the assistant message it had appended is
\* still the last message of the list, with the one delta it received
C18_Witness ==
    \E s \in Sessions :
        /\ status[s] = "failed"
        /\ messages # << >>
        /\ appendedBy[Len(messages)] = s
        /\ messages[Len(messages)].role = "assistant"
        /\ Len(messages[Len(messages)].content) = 1

\* speak is called in this step: by a speaker button, or by onDone with a reply
SpeakCalled ==
    \/ \E i \in 0..Len(messages) : SpeakMessage(i)
    \/ \E s \in Sessions : StreamDone(s) /\ assistantSoFar[s] # << >>

\* C19: a call of speak made while isMuted is set, or without a synthesis engine,
\* changes nothing of the playback controller: no utterance, no timer, no
\* catalog handler, the engine's queue and isSpeaking as they were
C19_MutedSpeakNoop ==
    [][((isMuted \/ ~synthAvailable) /\ SpeakCalled) => UNCHANGED playbackVars]_vars

\* C20: toggleMute flips isMuted; turning it on empties the engine's queue, so
\* that an utterance that is playing is cancelled, and clears isSpeaking; turning
\* it off hands nothing to the engine and leaves the queue and isSpeaking as
\* they were
C20_ToggleMute ==
    [][isMuted' # isMuted
       => /\ isMuted' = ~isMuted
          /\ ~isMuted => synthQueue' = << >> /\ ~isSpeaking'
          /\ isMuted => /\ synthQueue' = synthQueue
                        /\ isSpeaking' = isSpeaking
                        /\ spoken' = spoken
                        /\ nSpeaks' = nSpeaks]_vars

\* C20 witness: mute was turned on while an utterance was playing and has been
\* turned off again, and the engine is silent
C20_Witness ==
    /\ cutByMute
    /\ ~isMuted
    /\ synthQueue = << >>
    /\ ~isSpeaking

\* stopSpeaking is called in this step: by clearChat, or by a send past its guard
StopCalled == ClearChat \/ \E s \in Sessions : Accepted(s)

\* C21: a call of stopSpeaking leaves the engine without an utterance and
\* isSpeaking false; made while the engine holds nothing and isSpeaking is false
\* it changes nothing of the playback controller, so that a second call right
\* after the first changes nothing
C21_StopIdempotent ==
    [][StopCalled
       => /\ synthQueue' = << >>
          /\ ~isSpeaking'
          /\ (synthQueue = << >> /\ ~isSpeaking) => UNCHANGED playbackVars]_vars

\* C21 witness: stopSpeaking has cancelled an utterance that was playing, and the
\* engine is silent
C21_Witness ==
    /\ cutByStop
    /\ synthQueue = << >>
    /\ ~isSpeaking

\* the priority chain as claimed: the first voice with the tag itself, else the
\* first with the same primary subtag, else the first English one, else none (0)
SelectVoice(voices, lang) ==
    LET exact == Find({i \in 1..Len(voices) : voices[i] = lang})
        primary == Find({i \in 1..Len(voices) : SplitFirst(voices[i]) = SplitFirst(lang)})
        english == Find({i \in 1..Len(voices) : SplitFirst(voices[i]) = <<"e", "n">>})
    IN IF exact # 0 THEN exact
       ELSE IF primary # 0 THEN primary
       ELSE english

\* C22: every utterance handed to the engine carries the voice the priority chain
\* selects from the catalog of that moment for the tag of its speak call: exact
\* tag, else same primary subtag, else English, else none
C22_VoicePriority ==
    [][\A k \in Calls :
          spoken'[k] # spoken[k]
          => LET e == synthQueue'[Len(synthQueue')]
             IN e.call = k /\ e.voice = SelectVoice(GetVoices', utterLang'[k])]_vars

\* speak is called with text in this step
SpeakOf(text) ==
    \/ \E i \in 1..Len(messages) : messages[i].content = text /\ SpeakMessage(i)
    \/ \E s \in Sessions : assistantSoFar[s] = text /\ StreamDone(s)

\* the sanitized Reply as the claim gives it, and as the chain of replaces gives it
HelloWorldDot == <<"H", "e", "l", "l", "o", " ", "W", "o", "r", "l", "d", ".", " ">>
HelloLinkDotWorld ==
    <<"H", "e", "l", "l", "o", " ", "l", "i", "n", "k", ".", " ", "W", "o", "r", "l", "d">>

\* C23 as stated: a speak call made with Reply carries the text "Hello World. "
C23_ExampleAsStated ==
    [][(SpeakOf(Reply) /\ nSpeaks' # nSpeaks) => utterText'[nSpeaks'] = HelloWorldDot]_vars

\* C23 amended: a speak call made with Reply carries the text "Hello link. World":
\* the markup symbols are removed, the link is collapsed to its text, the run of
\* newlines becomes one sentence break and the ends are trimmed
C23_ExampleSanitized ==
    [][(SpeakOf(Reply) /\ nSpeaks' # nSpeaks)
       => utterText'[nSpeaks'] = HelloLinkDotWorld]_vars

\* C23 witness: an utterance with the sanitized Reply is playing
C23_Witness ==
    /\ synthQueue # << >>
    /\ synthQueue[1].started
    /\ utterText[synthQueue[1].call] = HelloLinkDotWorld

\* C24: a result whose transcript is empty does not move voiceState to
\* processing and does not resolve the pending call
C24_EmptyTranscriptIgnored ==
    [][\A c \in Caps :
          (ResultDelivered(c) /\ capture'[c].result = << >>)
          => /\ voiceState' # "processing"
             /\ capture[c].promise = "pending" => capture'[c].promise # "resolved"]_vars

\* C25: no utterance is handed to the engine in a step taken while isMuted is set
C25_SilentWhileMuted ==
    [][(\E k \in Calls : spoken'[k] # spoken[k]) => ~isMuted]_vars

\* invocation d is the one listening: its engine runs and its call is pending
Listening(d) ==
    /\ voiceState = "listening"
    /\ capture[d].promise = "pending"
    /\ capture[d].recognition = "started"

\* C26: while a later invocation is the one listening, the 10 s timer, the 300 ms
\* timer and the onend of an earlier invocation leave voiceState as it is
C26_StaleCallbacksInert ==
    [][\A c, d \in Caps :
          (c < d /\ Listening(d) /\ (Timeout(c) \/ IdleTimeout(c) \/ OnEnd(c)))
          => voiceState' = voiceState]_vars

\* C27: with timers that fire, listening leads to idle or error, processing leads
\* to idle, and every call of startListening is resolved or rejected in the end
C27_CaptureTerminates ==
    /\ (voiceState = "listening") ~> (voiceState \in {"idle", "error"})
    /\ (voiceState = "processing") ~> (voiceState = "idle")
    /\ \A c \in Caps :
          (capture[c].promise = "pending") ~> (capture[c].promise \in {"resolved", "rejected"})

\* C27 witness: a call was resolved by a transcript, its 300 ms timer has fired
\* and voiceState is back to idle while its engine has not ended yet
C27_Witness ==
    \E c \in Caps :
        /\ capture[c].promise = "resolved"
        /\ capture[c].event = "result"
        /\ capture[c].recognition = "delivered"
        /\ ~capture[c].idleTimer
        /\ voiceState = "idle"

\* C28: the loading flag is true whenever a stream session is in flight
C28_LoadingWhileInFlight ==
    \A s \in Sessions : InFlight(s) => isLoading

\* no assistant message directly follows another one
NoAdjacentAssistants ==
    \A i \in 1..(Len(messages) - 1) :
        ~(messages[i].role = "assistant" /\ messages[i + 1].role = "assistant")

\* session s receives a delta in this step
DeltaReceived(s) == Len(assistantSoFar'[s]) > Len(assistantSoFar[s])

\* C29: the message list never holds two adjacent assistant messages, and a delta
\* replaces the content of the last message when that one is an assistant
\* message, and otherwise (after a user message, or on an empty list) appends
\* one assistant message
C29_NoAdjacentAssistants ==
    /\ []NoAdjacentAssistants
    /\ [][\A s \in Sessions :
            DeltaReceived(s)
            => LET n == Len(messages)
               IN IF n > 0 /\ messages[n].role = "assistant"
                  THEN /\ Len(messages') = n
                       /\ SubSeq(messages', 1, n - 1) = SubSeq(messages, 1, n - 1)
                       /\ messages'[n] = [role |-> "assistant",
                                           content |-> assistantSoFar'[s]]
                  ELSE /\ Len(messages') = n + 1
                       /\ SubSeq(messages', 1, n) = messages
                       /\ messages'[n + 1] = [role |-> "assistant",
                                               content |-> assistantSoFar'[s]]]_vars

\* C29 witness: the assistant message a delta appended after the user message
\* was replaced by the second delta, and the list still ends with that one message
C29_Witness ==
    /\ Len(messages) = 2
    /\ messages[1].role = "user"
    /\ messages[2].role = "assistant"
    /\ Len(messages[2].content) = 2
    /\ \E s \in Sessions : Delivering(s) /\ assistantSoFar[s] = messages[2].content

====
